---- MODULE Spec2Model ----
(***************************************************************************)
(* Model of the pending-transaction monitor of web+Redis+render1.py:       *)
(* a listener coroutine (listen_pending_tx) pushes normalised transactions *)
(* on the Redis list "tx_queue", a consumer coroutine (consume_tx) pops    *)
(* them, scores them (simple_risk_score), logs them (log_message) and      *)
(* caches alerts (latest_alerts); the FastAPI handlers get_alerts and      *)
(* get_logs read the two caches from the server thread.                    *)
(*                                                                         *)
(* Both coroutines run under one asyncio.gather in one background thread:  *)
(* between two awaits a coroutine runs alone (variable running), and an    *)
(* exception that leaves either coroutine ends the whole gather.  The      *)
(* handlers run in another thread and may read the caches between any two  *)
(* list operations of the background thread, so log_message and the alert  *)
(* insertion are two steps each (insert at the front, then truncate).      *)
(*                                                                         *)
(* Floats are integers in hundredths (0.3 is 30, 1.0 is 100): the sums     *)
(* 0.5+0.3, 0.3+0.3 and 0+0.3 are exactly the literals 0.8, 0.6 and 0.3 in *)
(* IEEE doubles, and 0.5+0.3+0.3 exceeds 1.0, so the comparisons agree.    *)
(* Addresses are sequences of one-character strings.  A hash "0x<n>" is    *)
(* the number n; a timestamp is the number of the observation.             *)
(***************************************************************************)
EXTENDS Integers, Sequences, FiniteSets, TLC

\* ------------------------------------------------------------------ bounds
\* transactions the chain source emits in the mixed scenario
MaxTx == 2
\* transactions the chain source emits in the burst scenario
MaxBurst == 15
\* identifiers one poll returns at most
MaxBatch == 2
\* records waiting in the queue when the source emits more
MaxQueue == 2
\* failed detail lookups / failed pushes
MaxFail == 1
\* payloads pushed on the queue by something other than the listener
MaxBad == 1

\* ------------------------------------------------------- program constants
AlertCap == 10
LogCap == 20
RetentionThreshold == 30
DefaultThreshold == 80
ValueLimit == 100
GasLimit == 50
ValueWeight == 50
GasWeight == 30
PrefixWeight == 30
ScoreCap == 100
ThresholdMin == 0
ThresholdMax == 100

\* ---------------------------------------------------------------- strings
\* str.lower() on one character
LowerChar(c) ==
  CASE c = "A" -> "a"
    [] c = "B" -> "b"
    [] c = "C" -> "c"
    [] c = "D" -> "d"
    [] c = "E" -> "e"
    [] c = "F" -> "f"
    [] c = "X" -> "x"
    [] OTHER -> c

\* str.lower()
lower(s) == [i \in 1..Len(s) |-> LowerChar(s[i])]

\* str.startswith(prefix)
startswith(s, prefix) ==
  /\ Len(s) >= Len(prefix)
  /\ \A i \in 1..Len(prefix) : s[i] = prefix[i]

\* the literal "0xabc"
Prefix0xabc == <<"0", "x", "a", "b", "c">>

\* ----------------------------------------------------------------- scorer
\* a faulty variant: >= in place of >
AtLeast(x, limit) == x >= limit

\* lines 40, 42: the comparison of a rule
StrictlyAbove(x, limit) == x > limit

\* a faulty variant: return score, without min(score, 1.0)
simple_risk_score_uncapped(tx) ==
  LET s1 == IF StrictlyAbove(tx["value"], ValueLimit) THEN ValueWeight ELSE 0
      s2 == IF StrictlyAbove(tx["gas"], GasLimit) THEN s1 + GasWeight ELSE s1
  IN  IF startswith([i \in 1..Len(tx["from"]) |-> LowerChar(tx["from"][i])], <<"0", "x", "a", "b", "c">>)
      THEN s2 + PrefixWeight ELSE s2

\* simple_risk_score(tx): the three rules in the order the code applies them

simple_risk_score(tx) ==
  LET s0 == 0
      s1 == IF StrictlyAbove(tx["value"], ValueLimit) THEN s0 + ValueWeight ELSE s0
      s2 == IF StrictlyAbove(tx["gas"], GasLimit) THEN s1 + GasWeight ELSE s1
      s3 == IF startswith(lower(tx["from"]), Prefix0xabc) THEN s2 + PrefixWeight ELSE s2
  IN  IF s3 < ScoreCap THEN s3 ELSE ScoreCap

\* the subscripts simple_risk_score evaluates: a missing one raises KeyError
ScoreKeys == {"value", "gas", "from"}

\* ------------------------------------------------------------------- JSON
\* json.dumps of a dict: the text of an object, its members in insertion order
json_dumps(d, keys) ==
  [kind |-> "object", members |-> [i \in 1..Len(keys) |-> <<keys[i], d[keys[i]]>>]]

\* text that is no JSON value at all
Garbage == [kind |-> "garbage", members |-> <<>>]

\* the empty string
EmptyText == [kind |-> "empty", members |-> <<>>]

\* the value rpop returns on an empty list (None)
None == [kind |-> "none", members |-> <<>>]

\* truth value of "if tx_json:": None and "" are false
Truthy(text) == text.kind \notin {"none", "empty"}

\* json.loads raises on text that is no JSON value
LoadsRaises(text) == text.kind # "object"

MemberKeys(text) == {text.members[i][1] : i \in DOMAIN text.members}

\* json.loads of an object: a dict (the last member of a name wins)
json_loads(text) ==
  [k \in MemberKeys(text) |->
     LET last == CHOOSE i \in DOMAIN text.members :
                   /\ text.members[i][1] = k
                   /\ \A j \in DOMAIN text.members : text.members[j][1] = k => j <= i
     IN  text.members[last][2]]

\* ------------------------------------------------------------ environment
\* addresses the source may report
AddrABC123 == <<"0", "x", "A", "B", "C", "1", "2", "3">>
AddrUpperX == <<"0", "X", "a", "b", "c">>
AddrNearMiss == <<"0", "x", "a", "b", "d", "c">>
AddrShort == <<"0", "x", "a", "b">>
AddrOther == <<"0", "x", "d", "e", "f", "4">>
\* "to" of a contract creation (None)
NoAddress == <<>>

\* what w3.eth.get_transaction may answer for one hash.  Amounts are whole
\* multiples of 10^18 wei (value) and 10^9 wei (gasPrice), written as that
\* multiple, so the divisions of lines 61-62 are exact.
Details(v, g, f, t) == [value |-> v, gasPrice |-> g, from |-> f, to |-> t]

\* the mixed scenario: transactions of score 1.0, 0.0, 0.3 and 0.8
MixedFeed ==
  { Details(150, 60, AddrABC123, AddrOther),
    Details(100, 50, AddrNearMiss, AddrOther),
    Details(0, 51, AddrOther, NoAddress),
    Details(101, 51, AddrOther, AddrOther) }

\* the burst scenario: every transaction qualifies for an alert
BurstFeed == { Details(150, 60, AddrABC123, AddrOther) }

\* the scorer scenario: every combination of the three inputs
ScoreFeed ==
  { Details(v, g, f, AddrOther) :
      v \in {0, 99, 100, 101, 150}, g \in {0, 50, 51, 60},
      f \in {AddrABC123, AddrUpperX, AddrNearMiss, AddrShort, AddrOther, NoAddress} }

\* the payload scenario: a transaction that qualifies and one that does not
PayloadFeed ==
  { Details(150, 60, AddrABC123, AddrOther),
    Details(100, 50, AddrNearMiss, AddrOther) }

Feed(sc) ==
  CASE sc = "mixed" -> MixedFeed
    [] sc = "burst" -> BurstFeed
    [] sc = "payload" -> PayloadFeed
    [] OTHER -> ScoreFeed

\* how many transactions the source emits in a scenario
TxLimit(sc) ==
  CASE sc = "mixed" -> MaxTx
    [] sc = "payload" -> MaxTx
    [] sc = "burst" -> MaxBurst
    [] OTHER -> 1

\* the members of tx_data in the order of lines 57-64
TxKeys == <<"hash", "from", "to", "value", "gas", "timestamp">>

\* lines 57-64: the normalised record of transaction h observed at time now
tx_data_of(h, d, now) ==
  [hash |-> h, from |-> d.from, to |-> d.to, value |-> d.value, gas |-> d.gasPrice,
   timestamp |-> now]

\* payloads something else may leave on the queue: no JSON, the empty string,
\* and objects that lack a member the consumer reads
ForeignTx(d) == tx_data_of(0, d, 0)
BadPayloads ==
  { Garbage, EmptyText,
    json_dumps(ForeignTx(Details(150, 60, AddrABC123, AddrOther)),
               <<"from", "to", "value", "gas", "timestamp">>),
    json_dumps(ForeignTx(Details(150, 60, AddrABC123, AddrOther)),
               <<"hash", "from", "value", "gas", "timestamp">>),
    json_dumps(ForeignTx(Details(0, 0, AddrOther, AddrOther)),
               <<"hash", "from", "value", "gas", "timestamp">>) }

\* --------------------------------------------------------------- log lines
\* the three messages of lines 51, 74, 66 and 80
LogLine(m, h, s) == [msg |-> m, hash |-> h, score |-> s]
NoHash == 0 - 1
NoScore == 0 - 1
ListenStarted == LogLine("listening", NoHash, NoScore)
ConsumeStarted == LogLine("consuming", NoHash, NoScore)
\* a faulty variant: the enqueue message without the hash
EnqueuedUnnamed(h) == LogLine("enqueued", NoHash, NoScore)
Enqueued(h) == LogLine("enqueued", h, NoScore)
Consumed(h, s) == LogLine("consumed", h, s)

\* ----------------------------------------------------------------- state
VARIABLES
  scenario,          \* what the source emits (fixed by Init)
  emitted,           \* hashes the pending filter has returned so far
  fails,             \* failed lookups and pushes so far
  bads,              \* foreign payloads pushed so far
  tx_queue,          \* the Redis list "tx_queue", left end first
  latest_alerts,     \* line 27
  transaction_logs,  \* line 28
  running,           \* "listen", "consume", "idle" (both await), "dead" (gather ended)
  pc_listen,         \* where listen_pending_tx stands
  ret_listen,        \* where it continues after log_message
  tx_hashes,         \* the rest of the for loop of line 54
  tx_data,           \* line 57
  pc_consume,        \* where consume_tx stands
  ret_consume,       \* where it continues after log_message
  tx_json,           \* line 76
  score,             \* line 79
  response,          \* the answer of the last query, until it is delivered
  alert_hist,        \* every alert ever inserted, oldest first (history)
  log_hist,          \* every line ever logged, oldest first (history)
  pushed,            \* every payload LPUSH put on the list, oldest first (history)
  popped             \* every payload RPOP took off the list, oldest first (history)

vars ==
  <<scenario, emitted, fails, bads, tx_queue, latest_alerts, transaction_logs,
    running, pc_listen, ret_listen, tx_hashes, tx_data, pc_consume, ret_consume,
    tx_json, score, response, alert_hist, log_hist, pushed, popped>>

envVars == <<scenario, emitted, fails, bads>>
listenVars == <<pc_listen, ret_listen, tx_hashes, tx_data>>
consumeVars == <<pc_consume, ret_consume, tx_json, score>>
histVars == <<alert_hist, log_hist, pushed, popped>>

NoTxData == tx_data_of(NoHash, Details(0, 0, NoAddress, NoAddress), 0)
NoResponse == [kind |-> "none", threshold |-> 0, body |-> <<>>]

InitFor(sc) ==
  /\ scenario = sc
  /\ emitted = 0
  /\ fails = 0
  /\ bads = 0
  /\ tx_queue = <<>>
  /\ latest_alerts = <<>>
  /\ transaction_logs = <<>>
  /\ running = "listen"
  /\ pc_listen = "start"
  /\ ret_listen = "poll"
  /\ tx_hashes = <<>>
  /\ tx_data = NoTxData
  /\ pc_consume = "start"
  /\ ret_consume = "rpop"
  /\ tx_json = None
  /\ score = NoScore
  /\ response = NoResponse
  /\ alert_hist = <<>>
  /\ log_hist = <<>>
  /\ pushed = <<>>
  /\ popped = <<>>

Init == InitFor("mixed")
InitPayload == InitFor("payload")
InitBurst == InitFor("burst")
InitScore == InitFor("score")

\* ------------------------------------------------------------ log_message
\* line 33: transaction_logs.insert(0, msg)
LogInsert(msg) ==
  /\ transaction_logs' = <<msg>> \o transaction_logs
  /\ log_hist' = Append(log_hist, msg)

\* a faulty variant: pop(0) removes the newest line
LogTruncatedFront(logs) ==
  IF Len(logs) > LogCap THEN Tail(logs) ELSE logs

\* lines 34-35: if len(transaction_logs) > 20: transaction_logs.pop()
LogTruncated(logs) ==
  IF Len(logs) > LogCap THEN SubSeq(logs, 1, Len(logs) - 1) ELSE logs

\* a faulty variant: gather(..., return_exceptions=True), the other
\* coroutine goes on
RaiseAlone == running' = "idle"

\* an exception leaves a coroutine: gather raises, asyncio.run returns
Raise == running' = "dead"

\* ------------------------------------------------------------ Redis list
\* LPUSH: the new element becomes the left end
lpush(q, x) == <<x>> \o q

\* a faulty variant: LPOP, the element at the left end
lpop_value(q) == IF q = <<>> THEN None ELSE q[1]

\* RPOP: the element at the right end, None on an empty list
rpop_value(q) == IF q = <<>> THEN None ELSE q[Len(q)]

\* a faulty variant: LINDEX -1, the element stays on the list
rpop_rest_kept(q) == q

\* RPOP: what stays on the list
rpop_rest(q) == IF q = <<>> THEN q ELSE SubSeq(q, 1, Len(q) - 1)

\* ------------------------------------------------------ listen_pending_tx
\* lines 50-51: create the filter, log the start message (insert step)
ListenStart ==
  /\ running = "listen"
  /\ pc_listen = "start"
  /\ LogInsert(ListenStarted)
  /\ pc_listen' = "trim"
  /\ ret_listen' = "poll"
  /\ UNCHANGED <<envVars, tx_queue, latest_alerts, running, tx_hashes, tx_data,
                 consumeVars, response, alert_hist, pushed, popped>>

\* lines 34-35 inside the listener's log_message
ListenTrim ==
  /\ running = "listen"
  /\ pc_listen = "trim"
  /\ transaction_logs' = LogTruncated(transaction_logs)
  /\ pc_listen' = ret_listen
  /\ UNCHANGED <<envVars, tx_queue, latest_alerts, running, ret_listen, tx_hashes,
                 tx_data, consumeVars, response, histVars>>

\* line 53: get_new_entries returns the k hashes that became pending
ListenPoll(k) ==
  /\ running = "listen"
  /\ pc_listen = "poll"
  /\ emitted + k <= TxLimit(scenario)
  /\ k > 0 => Len(tx_queue) + k <= MaxQueue
  /\ tx_hashes' = [i \in 1..k |-> emitted + i]
  /\ emitted' = emitted + k
  /\ pc_listen' = "resolve"
  /\ UNCHANGED <<scenario, fails, bads, tx_queue, latest_alerts, transaction_logs,
                 running, ret_listen, tx_data, consumeVars, response, histVars>>

\* line 53 raises (the node does not answer): nothing catches it
ListenPollRaises ==
  /\ running = "listen"
  /\ pc_listen = "poll"
  /\ fails < MaxFail
  /\ fails' = fails + 1
  /\ pc_listen' = "crashed"
  /\ Raise
  /\ UNCHANGED <<scenario, emitted, bads, tx_queue, latest_alerts, transaction_logs,
                 ret_listen, tx_hashes, tx_data, consumeVars, response, histVars>>

\* lines 56-65: the lookup succeeds, tx_data is built, lpush is awaited
ListenResolve(d) ==
  /\ running = "listen"
  /\ pc_listen = "resolve"
  /\ tx_hashes # <<>>
  /\ tx_data' = tx_data_of(Head(tx_hashes), d, Head(tx_hashes))
  /\ tx_hashes' = Tail(tx_hashes)
  /\ pc_listen' = "lpush"
  /\ running' = "idle"
  /\ UNCHANGED <<envVars, tx_queue, latest_alerts, transaction_logs, ret_listen,
                 consumeVars, response, histVars>>

\* a faulty variant: no try/except around the lookup
ListenResolveEscapes ==
  /\ running = "listen"
  /\ pc_listen = "resolve"
  /\ tx_hashes # <<>>
  /\ fails < MaxFail
  /\ fails' = fails + 1
  /\ pc_listen' = "crashed"
  /\ Raise
  /\ UNCHANGED <<scenario, emitted, bads, tx_queue, latest_alerts, transaction_logs,
                 ret_listen, tx_hashes, tx_data, consumeVars, response, histVars>>

\* lines 56, 67-68: the lookup raises, the hash is skipped
ListenResolveRaises ==
  /\ running = "listen"
  /\ pc_listen = "resolve"
  /\ tx_hashes # <<>>
  /\ fails < MaxFail
  /\ fails' = fails + 1
  /\ tx_hashes' = Tail(tx_hashes)
  /\ UNCHANGED <<scenario, emitted, bads, tx_queue, latest_alerts, transaction_logs,
                 running, pc_listen, ret_listen, tx_data, consumeVars, response,
                 histVars>>

\* line 69: the for loop is over, sleep(1) is awaited
ListenSleep ==
  /\ running = "listen"
  /\ pc_listen = "resolve"
  /\ tx_hashes = <<>>
  /\ pc_listen' = "sleep"
  /\ running' = "idle"
  /\ UNCHANGED <<envVars, tx_queue, latest_alerts, transaction_logs, ret_listen,
                 tx_hashes, tx_data, consumeVars, response, histVars>>

\* Redis executes the LPUSH of line 65
RedisLpush ==
  /\ pc_listen = "lpush"
  /\ tx_queue' = lpush(tx_queue, json_dumps(tx_data, TxKeys))
  /\ pushed' = Append(pushed, json_dumps(tx_data, TxKeys))
  /\ pc_listen' = "pushed"
  /\ UNCHANGED <<envVars, latest_alerts, transaction_logs, running, ret_listen,
                 tx_hashes, tx_data, consumeVars, response, alert_hist, log_hist,
                 popped>>

\* the LPUSH of line 65 fails (the store is unavailable)
RedisLpushFails ==
  /\ pc_listen = "lpush"
  /\ fails < MaxFail
  /\ fails' = fails + 1
  /\ pc_listen' = "push_failed"
  /\ UNCHANGED <<scenario, emitted, bads, tx_queue, latest_alerts, transaction_logs,
                 running, ret_listen, tx_hashes, tx_data, consumeVars, response,
                 histVars>>

\* the scheduler resumes a coroutine only when none runs; the consumer,
\* created second by gather, has its first turn before the listener's second
CanResumeListen == running = "idle" /\ pc_consume # "start"

\* a faulty variant: the listener scores what it enqueued and caches the alert
ListenPushedCaching ==
  /\ CanResumeListen
  /\ pc_listen = "pushed"
  /\ running' = "listen"
  /\ LogInsert(Enqueued(tx_data["hash"]))
  /\ latest_alerts' = <<[tx_hash |-> tx_data["hash"],
                         risk_score |-> simple_risk_score(tx_data),
                         from |-> tx_data["from"], to |-> tx_data["to"],
                         timestamp |-> tx_data["timestamp"]]>> \o latest_alerts
  /\ pc_listen' = "trim"
  /\ ret_listen' = "resolve"
  /\ UNCHANGED <<envVars, tx_queue, tx_hashes, tx_data, consumeVars,
                 response, alert_hist, pushed, popped>>

\* line 66: lpush returned, the enqueue message is logged (insert step)
ListenPushed ==
  /\ CanResumeListen
  /\ pc_listen = "pushed"
  /\ running' = "listen"
  /\ LogInsert(Enqueued(tx_data["hash"]))
  /\ pc_listen' = "trim"
  /\ ret_listen' = "resolve"
  /\ UNCHANGED <<envVars, tx_queue, latest_alerts, tx_hashes, tx_data, consumeVars,
                 response, alert_hist, pushed, popped>>

\* lines 67-68: lpush raised, the hash is skipped
ListenPushRaised ==
  /\ CanResumeListen
  /\ pc_listen = "push_failed"
  /\ running' = "listen"
  /\ pc_listen' = "resolve"
  /\ UNCHANGED <<envVars, tx_queue, latest_alerts, transaction_logs, ret_listen,
                 tx_hashes, tx_data, consumeVars, response, histVars>>

\* line 69 returns: the next poll
ListenWake ==
  /\ CanResumeListen
  /\ pc_listen = "sleep"
  /\ running' = "listen"
  /\ pc_listen' = "poll"
  /\ UNCHANGED <<envVars, tx_queue, latest_alerts, transaction_logs, ret_listen,
                 tx_hashes, tx_data, consumeVars, response, histVars>>

\* ------------------------------------------------------------- consume_tx
\* line 74: log the start message (insert step)
ConsumeStart ==
  /\ running = "idle"
  /\ pc_consume = "start"
  /\ running' = "consume"
  /\ LogInsert(ConsumeStarted)
  /\ pc_consume' = "trim"
  /\ ret_consume' = "rpop"
  /\ UNCHANGED <<envVars, tx_queue, latest_alerts, listenVars, tx_json, score,
                 response, alert_hist, pushed, popped>>

\* lines 34-35 inside the consumer's log_message; back at line 76 rpop is awaited
ConsumeTrim ==
  /\ running = "consume"
  /\ pc_consume = "trim"
  /\ transaction_logs' = LogTruncated(transaction_logs)
  /\ pc_consume' = ret_consume
  /\ running' = IF ret_consume = "rpop" THEN "idle" ELSE running
  /\ UNCHANGED <<envVars, tx_queue, latest_alerts, listenVars, ret_consume, tx_json,
                 score, response, histVars>>

\* Redis executes the RPOP of line 76
RedisRpop ==
  /\ pc_consume = "rpop"
  /\ tx_json' = rpop_value(tx_queue)
  /\ tx_queue' = rpop_rest(tx_queue)
  /\ popped' = IF tx_queue = <<>> THEN popped ELSE Append(popped, rpop_value(tx_queue))
  /\ pc_consume' = "popped"
  /\ UNCHANGED <<envVars, latest_alerts, transaction_logs, running, listenVars,
                 ret_consume, score, response, alert_hist, log_hist, pushed>>

\* the RPOP of line 76 fails (the store is unavailable)
RedisRpopFails ==
  /\ pc_consume = "rpop"
  /\ fails < MaxFail
  /\ fails' = fails + 1
  /\ pc_consume' = "pop_failed"
  /\ UNCHANGED <<scenario, emitted, bads, tx_queue, latest_alerts, transaction_logs,
                 running, listenVars, ret_consume, tx_json, score, response, histVars>>

\* line 76 raises: nothing catches it
ConsumePopRaised ==
  /\ running = "idle"
  /\ pc_consume = "pop_failed"
  /\ pc_consume' = "crashed"
  /\ Raise
  /\ UNCHANGED <<envVars, tx_queue, latest_alerts, transaction_logs, listenVars,
                 ret_consume, tx_json, score, response, histVars>>

\* a faulty variant: on an empty pop the coroutine returns
ConsumeNothingStops ==
  /\ running = "idle"
  /\ pc_consume = "popped"
  /\ ~Truthy(tx_json)
  /\ tx_json' = None
  /\ pc_consume' = "stopped"
  /\ UNCHANGED <<envVars, tx_queue, latest_alerts, transaction_logs, running,
                 listenVars, ret_consume, score, response, histVars>>

\* lines 77, 91-92: nothing to process, sleep(0.5) is awaited
ConsumeNothing ==
  /\ running = "idle"
  /\ pc_consume = "popped"
  /\ ~Truthy(tx_json)
  /\ tx_json' = None
  /\ pc_consume' = "sleep"
  /\ UNCHANGED <<envVars, tx_queue, latest_alerts, transaction_logs, running,
                 listenVars, ret_consume, score, response, histVars>>

\* line 92 returns: the next rpop is awaited
ConsumeWake ==
  /\ running = "idle"
  /\ pc_consume = "sleep"
  /\ pc_consume' = "rpop"
  /\ UNCHANGED <<envVars, tx_queue, latest_alerts, transaction_logs, running,
                 listenVars, ret_consume, tx_json, score, response, histVars>>

\* lines 78-80 raise on this payload: json.loads on text that is no JSON,
\* a subscript of simple_risk_score or tx['hash'] on a missing member
ScoringRaises(text) ==
  \/ LoadsRaises(text)
  \/ ~(ScoreKeys \subseteq MemberKeys(text))
  \/ "hash" \notin MemberKeys(text)

\* lines 83-87 raise on this payload: a subscript on a missing member
AlertKeys == {"hash", "from", "to", "timestamp"}
AlertRaises(text) == ~(AlertKeys \subseteq MemberKeys(text))

\* lines 78-80: decode, score, log the consumption (insert step)
ConsumeScore ==
  /\ running = "idle"
  /\ pc_consume = "popped"
  /\ Truthy(tx_json)
  /\ ~ScoringRaises(tx_json)
  /\ running' = "consume"
  /\ score' = simple_risk_score(json_loads(tx_json))
  /\ LogInsert(Consumed(json_loads(tx_json)["hash"], score'))
  /\ pc_consume' = "trim"
  /\ ret_consume' = "alert"
  /\ UNCHANGED <<envVars, tx_queue, latest_alerts, listenVars, tx_json, response,
                 alert_hist, pushed, popped>>

\* lines 78-80 raise: nothing catches it
ConsumeScoreRaises ==
  /\ running = "idle"
  /\ pc_consume = "popped"
  /\ Truthy(tx_json)
  /\ ScoringRaises(tx_json)
  /\ pc_consume' = "crashed"
  /\ Raise
  /\ UNCHANGED <<envVars, tx_queue, latest_alerts, transaction_logs, listenVars,
                 ret_consume, tx_json, score, response, histVars>>

\* a faulty variant: if score > 0.3
RetainedStrictly(s) == s > RetentionThreshold

\* line 81: does the record enter the alert cache
Retained(s) == s >= RetentionThreshold

\* lines 82-88
alert_of(tx, s) ==
  [tx_hash |-> tx["hash"], risk_score |-> s, from |-> tx["from"], to |-> tx["to"],
   timestamp |-> tx["timestamp"]]

\* line 81 is false: back at line 76 rpop is awaited
ConsumeNoAlert ==
  /\ running = "consume"
  /\ pc_consume = "alert"
  /\ ~Retained(score)
  /\ pc_consume' = "rpop"
  /\ running' = "idle"
  /\ tx_json' = None
  /\ score' = NoScore
  /\ UNCHANGED <<envVars, tx_queue, latest_alerts, transaction_logs, listenVars,
                 ret_consume, response, histVars>>

\* lines 82-89: latest_alerts.insert(0, alert)
ConsumeAlertInsert ==
  /\ running = "consume"
  /\ pc_consume = "alert"
  /\ Retained(score)
  /\ ~AlertRaises(tx_json)
  /\ latest_alerts' = <<alert_of(json_loads(tx_json), score)>> \o latest_alerts
  /\ alert_hist' = Append(alert_hist, alert_of(json_loads(tx_json), score))
  /\ pc_consume' = "alert_trim"
  /\ UNCHANGED <<envVars, tx_queue, transaction_logs, running, listenVars,
                 ret_consume, tx_json, score, log_hist, pushed, popped>>

\* lines 82-88 raise: nothing catches it
ConsumeAlertRaises ==
  /\ running = "consume"
  /\ pc_consume = "alert"
  /\ Retained(score)
  /\ AlertRaises(tx_json)
  /\ pc_consume' = "crashed"
  /\ Raise
  /\ UNCHANGED <<envVars, tx_queue, latest_alerts, transaction_logs, listenVars,
                 ret_consume, tx_json, score, response, histVars>>

\* a faulty variant: latest_alerts[:11]
AlertsTruncatedLate(alerts) ==
  IF Len(alerts) > AlertCap + 1 THEN SubSeq(alerts, 1, AlertCap + 1) ELSE alerts

\* a faulty variant: latest_alerts[-10:]
AlertsTruncatedTail(alerts) ==
  IF Len(alerts) > AlertCap THEN SubSeq(alerts, Len(alerts) - AlertCap + 1, Len(alerts))
  ELSE alerts

\* line 90: latest_alerts[:10]
AlertsTruncated(alerts) ==
  IF Len(alerts) > AlertCap THEN SubSeq(alerts, 1, AlertCap) ELSE alerts

\* line 90, then back at line 76 rpop is awaited
ConsumeAlertTrim ==
  /\ running = "consume"
  /\ pc_consume = "alert_trim"
  /\ latest_alerts' = AlertsTruncated(latest_alerts)
  /\ pc_consume' = "rpop"
  /\ running' = "idle"
  /\ tx_json' = None
  /\ score' = NoScore
  /\ UNCHANGED <<envVars, tx_queue, transaction_logs, listenVars, ret_consume,
                 response, histVars>>

\* ------------------------------------------------------------ other writers
\* something else pushes a payload on the list
ForeignPush(text) ==
  /\ bads < MaxBad
  /\ bads' = bads + 1
  /\ tx_queue' = lpush(tx_queue, text)
  /\ pushed' = Append(pushed, text)
  /\ UNCHANGED <<scenario, emitted, fails, latest_alerts, transaction_logs, running,
                 listenVars, consumeVars, response, alert_hist, log_hist, popped>>

\* ----------------------------------------------------------------- queries
\* the query string of GET /alerts: no threshold, or one in hundredths
NoThreshold == [given |-> FALSE, t |-> 0]
Threshold(x) == [given |-> TRUE, t |-> x]
Queries == {NoThreshold} \cup {Threshold(x) : x \in {0 - 10, 0, 31, 100, 110}}

\* line 96: Query(0.8, ge=0.0, le=1.0)
threshold_of(q) == IF q.given THEN q.t ELSE DefaultThreshold

\* a faulty variant: Query(0.8, ge=0.0), the upper limit left out
ValidAbove(t) == t >= ThresholdMin

\* line 96: ge=0.0, le=1.0
Valid(t) == t >= ThresholdMin /\ t <= ThresholdMax

\* a faulty variant: a["risk_score"] > threshold
PassesStrictly(a, t) == a.risk_score > t

\* line 97: the condition of the comprehension
Passes(a, t) == a.risk_score >= t

\* line 97: [a for a in alerts if a["risk_score"] >= threshold]
filtered(alerts, t) == SelectSeq(alerts, LAMBDA a : Passes(a, t))

AlertsResponse(t, body) == [kind |-> "alerts", threshold |-> t, body |-> body]
LogsResponse(body) == [kind |-> "logs", threshold |-> 0, body |-> body]
Rejected(t) == [kind |-> "rejected", threshold |-> t, body |-> <<>>]

\* lines 95-98: GET /alerts, the comprehension running with no insertion in between
GetAlerts(q) ==
  /\ response = NoResponse
  /\ Valid(threshold_of(q))
  /\ response' = AlertsResponse(threshold_of(q), filtered(latest_alerts, threshold_of(q)))
  /\ UNCHANGED <<envVars, tx_queue, latest_alerts, transaction_logs, running,
                 listenVars, consumeVars, histVars>>

\* line 96: a threshold outside [0, 1] fails validation, the handler is not called
GetAlertsRejected(q) ==
  /\ response = NoResponse
  /\ ~Valid(threshold_of(q))
  /\ response' = Rejected(threshold_of(q))
  /\ UNCHANGED <<envVars, tx_queue, latest_alerts, transaction_logs, running,
                 listenVars, consumeVars, histVars>>

\* what the comprehension of line 97 reads when line 89 inserts at the front
\* after it has read i elements: the element it read last comes again
ReadAcrossInsert(alerts, i) == SubSeq(alerts, 1, i) \o SubSeq(alerts, i, Len(alerts))

\* line 97 in the server thread while line 89 runs in the background thread
GetAlertsDuringInsert(q, i) ==
  /\ response = NoResponse
  /\ Valid(threshold_of(q))
  /\ i \in 1..Len(latest_alerts)
  /\ ConsumeAlertInsert
  /\ response' = AlertsResponse(threshold_of(q),
                                filtered(ReadAcrossInsert(latest_alerts, i), threshold_of(q)))

\* a faulty variant: the handler hands the lines out and empties the cache
GetLogsDraining ==
  /\ response = NoResponse
  /\ response' = LogsResponse(transaction_logs)
  /\ transaction_logs' = <<>>
  /\ UNCHANGED <<envVars, tx_queue, latest_alerts, running,
                 listenVars, consumeVars, histVars>>

\* lines 101-103: GET /logs
GetLogs ==
  /\ response = NoResponse
  /\ response' = LogsResponse(transaction_logs)
  /\ UNCHANGED <<envVars, tx_queue, latest_alerts, transaction_logs, running,
                 listenVars, consumeVars, histVars>>

\* the answer goes out to the caller
Respond ==
  /\ response # NoResponse
  /\ response' = NoResponse
  /\ UNCHANGED <<envVars, tx_queue, latest_alerts, transaction_logs, running,
                 listenVars, consumeVars, histVars>>

\* ----------------------------------------------------------- specifications
ListenSteps ==
  \/ ListenStart
  \/ ListenTrim
  \/ \E d \in Feed(scenario) : ListenResolve(d)
  \/ ListenSleep
  \/ ListenPushed

ConsumeSteps ==
  \/ ConsumeStart
  \/ ConsumeTrim
  \/ ConsumeNothing
  \/ ConsumeWake
  \/ ConsumeScore
  \/ ConsumeAlertInsert /\ UNCHANGED response
  \/ ConsumeAlertTrim

Faults ==
  \/ ListenPollRaises
  \/ ListenResolveRaises
  \/ ListenPushRaised
  \/ ConsumePopRaised
  \/ RedisLpushFails
  \/ RedisRpopFails

PayloadFaults ==
  \/ \E text \in BadPayloads : ForeignPush(text)
  \/ ConsumeScoreRaises
  \/ ConsumeAlertRaises

Query ==
  \/ \E q \in Queries : GetAlerts(q)
  \/ \E q \in Queries : GetAlertsRejected(q)
  \/ \E q \in Queries : \E i \in 1..AlertCap : GetAlertsDuringInsert(q, i)
  \/ GetLogs
  \/ Respond

Pipeline ==
  \/ ListenSteps
  \/ \E k \in 0..MaxBatch : ListenPoll(k)
  \/ ListenWake
  \/ ConsumeSteps
  \/ ConsumeNoAlert
  \/ RedisLpush
  \/ RedisRpop

\* the service: every schedule of the two coroutines and the handlers, the
\* source and the store failing, a few transactions of every kind
Next == Pipeline \/ Faults \/ Query

Spec == Init /\ [][Next]_vars

\* the pipeline with other writers on the queue
NextPayload == Pipeline \/ PayloadFaults

PayloadSpec == InitPayload /\ [][NextPayload]_vars

\* The burst: many qualifying transactions and no fault, on the schedule of a
\* source that emits full batches once the consumer has drained the queue
\* and a consumer that pops while the listener sleeps.
Drained ==
  /\ tx_queue = <<>>
  /\ pc_consume \in {"rpop", "sleep"}

FullBatch(k) == k = 0 \/ k = MaxBatch \/ emitted + k = TxLimit(scenario)

BurstPoll == \E k \in 0..MaxBatch : FullBatch(k) /\ (k > 0 => Drained) /\ ListenPoll(k)

BurstRpop == pc_listen = "sleep" /\ RedisRpop

BurstWake == Drained /\ ListenWake

NextBurst ==
  \/ ListenSteps
  \/ BurstPoll
  \/ BurstWake
  \/ ConsumeSteps
  \/ RedisLpush
  \/ BurstRpop
  \/ Query

BurstSpec == InitBurst /\ [][NextBurst]_vars

\* The scorer: one transaction of any kind goes through the pipeline
NextScore == Pipeline

ScoreSpec == InitScore /\ [][NextScore]_vars

\* The pipeline without failures under the scheduling of the event loop: a
\* coroutine that runs goes on to its next await, the store executes a
\* command it was sent, and a coroutine whose await has completed is resumed
\* however often the other one takes its turn in between
ListenRuns ==
  \/ ListenStart
  \/ ListenTrim
  \/ \E k \in 0..MaxBatch : ListenPoll(k)
  \/ \E d \in Feed(scenario) : ListenResolve(d)
  \/ ListenSleep

ConsumeRuns == ConsumeSteps \/ ConsumeNoAlert

NextLive == Pipeline

LiveSpec ==
  /\ Init
  /\ [][NextLive]_vars
  /\ WF_vars(ListenRuns)
  /\ WF_vars(RedisRpop)
  /\ SF_vars(ConsumeRuns)

\* ------------------------------------------------------------- properties
\* no log_message call and no alert insertion is between its two steps
Settled == pc_listen # "trim" /\ pc_consume \notin {"trim", "alert_trim"}

\* the consumer holds no record: it awaits rpop or sleeps
ConsumerIdle == pc_consume \in {"rpop", "popped", "sleep"} /\ ~Truthy(tx_json)

CountOf(seq, P(_)) == Cardinality({i \in DOMAIN seq : P(seq[i])})
PosIn(seq, e) == CHOOSE i \in DOMAIN seq : seq[i] = e
Elements(seq) == {seq[i] : i \in DOMAIN seq}

\* C1: whenever every log_message call and every alert insertion that has
\* started is complete, the alert cache holds at most 10 entries and the log
\* cache at most 20.
C1_CachesBounded ==
  Settled => Len(latest_alerts) <= 10 /\ Len(transaction_logs) <= 20

\* C1 witness: more than 10 alerts and more than 20 lines were inserted and
\* both caches are full
C1_Witness ==
  /\ Settled
  /\ Len(alert_hist) > 10 /\ Len(latest_alerts) = 10
  /\ Len(log_hist) > 20 /\ Len(transaction_logs) = 20

\* what an eviction from a cache of capacity cap must look like, hist being
\* every entry ever inserted, oldest first
OldestEvicted(before, after, hist, cap) ==
  LET gone == Elements(before) \ Elements(after)
  IN  /\ Len(before) = cap + 1
      /\ Len(after) = cap
      /\ Cardinality(gone) = 1
      /\ \A e \in gone : \A i \in DOMAIN before : PosIn(hist, e) <= PosIn(hist, before[i])
      /\ after[1] = hist[Len(hist)]
      /\ \A i, j \in DOMAIN after :
           i < j => PosIn(before, after[i]) < PosIn(before, after[j])

\* C2: every step that evicts from the full alert cache or the full log
\* cache removes the least recently inserted entry, leaves the newest entry
\* at the front and keeps the order of the surviving entries.
C2_EvictsOldest ==
  [][ /\ Len(latest_alerts') < Len(latest_alerts)
        => OldestEvicted(latest_alerts, latest_alerts', alert_hist, 10)
      /\ Len(transaction_logs') < Len(transaction_logs)
        => OldestEvicted(transaction_logs, transaction_logs', log_hist, 20) ]_vars

\* C2 witness: both caches have evicted at least twice
C2_Witness ==
  /\ Len(alert_hist) >= 12 /\ Len(latest_alerts) = 10
  /\ Len(log_hist) >= 22 /\ Len(transaction_logs) = 20
  /\ pc_consume = "sleep"

\* the answer to GET /alerts is exactly the entries of cache scoring t or more
ExactlyThoseAtLeast(body, cache, t) ==
  /\ \A i \in DOMAIN body : body[i].risk_score >= t /\ body[i] \in Elements(cache)
  /\ \A j \in DOMAIN cache : cache[j].risk_score >= t => cache[j] \in Elements(body)
  /\ Len(body) = Cardinality({j \in DOMAIN cache : cache[j].risk_score >= t})
  /\ \A i, j \in DOMAIN body : i < j => PosIn(cache, body[i]) < PosIn(cache, body[j])

FifteenConsumed ==
  /\ Len(pushed) = 15
  /\ popped = pushed
  /\ ConsumerIdle

\* C4: from empty caches, once 15 qualifying records are pushed and all are
\* consumed, the alert cache holds exactly the 10 pushed last, the last one
\* first, and none of the first 5.
C4_TenMostRecent ==
  FifteenConsumed =>
    /\ Len(latest_alerts) = 10
    /\ \A i \in 1..10 : latest_alerts[i].tx_hash = json_loads(pushed[16 - i])["hash"]
    /\ \A i \in 1..10 : \A k \in 1..5 :
         latest_alerts[i].tx_hash # json_loads(pushed[k])["hash"]

\* C4 witness: the 15 records are consumed and each of them qualified
C4_Witness ==
  /\ FifteenConsumed
  /\ Len(alert_hist) = 15
  /\ \A k \in 1..15 : alert_hist[k].tx_hash = json_loads(pushed[k])["hash"]

\* a payload that cannot be decoded into a record or lacks a member of one
Malformed(text) ==
  /\ text # None
  /\ \/ text.kind # "object"
     \/ ~({"hash", "from", "to", "value", "gas", "timestamp"} \subseteq MemberKeys(text))

\* C5 (as claimed): the step by which the consumer takes up a malformed
\* payload drops it, adds one log line, leaves the alert cache alone and
\* leaves the consumer loop running.
C5_MalformedDropped ==
  [][ (pc_consume = "popped" /\ Malformed(tx_json) /\ pc_consume' # "popped") =>
        /\ running' # "dead"
        /\ pc_consume' # "crashed"
        /\ Len(log_hist') = Len(log_hist) + 1
        /\ latest_alerts' = latest_alerts ]_vars

\* C5: what the code does with a payload that is no JSON: the consumer is
\* left by the exception and the gather is over
C5_GarbageEndsPipeline ==
  [][ (pc_consume = "popped" /\ tx_json = Garbage /\ pc_consume' # "popped") =>
        /\ running' = "dead"
        /\ pc_consume' = "crashed"
        /\ UNCHANGED <<latest_alerts, transaction_logs, log_hist>> ]_vars

IsEnqueued(line) == line.msg = "enqueued"

\* C6: a failed lookup of one hash pushes nothing and logs nothing, leaves
\* the rest of the batch to be looked up and does not end the listener: the
\* listener never dies inside a batch, and at the end of every poll cycle
\* each emitted hash is pushed and logged except at most one per failure.
C6_FailedLookupSkipped ==
  /\ [](pc_listen = "crashed" => tx_hashes = <<>>)
  /\ []((pc_listen \in {"sleep", "poll"}) =>
          /\ emitted - Len(pushed) <= fails
          /\ CountOf(log_hist, IsEnqueued) = Len(pushed))
  /\ [][ (pc_listen = "resolve" /\ pc_listen' = "resolve" /\ tx_hashes' # tx_hashes) =>
           /\ UNCHANGED <<tx_queue, pushed, transaction_logs, log_hist>>
           /\ tx_hashes' = Tail(tx_hashes)
           /\ running' = "listen" ]_vars

\* C6 witness: the lookup of the first hash of a batch of two has failed
\* (no record was ever built), nothing is pushed or logged for it, and the
\* listener goes on with the second hash
C6_Witness ==
  /\ fails = 1
  /\ emitted = 2
  /\ running = "listen"
  /\ pc_listen = "resolve"
  /\ tx_hashes = <<2>>
  /\ tx_data = NoTxData
  /\ pushed = <<>>
  /\ CountOf(log_hist, IsEnqueued) = 0

\* the rules of the scorer, stated on the decoded record
ValueRule(tx) == tx["value"] > 100
GasRule(tx) == tx["gas"] > 50
PrefixRule(tx) ==
  /\ Len(tx["from"]) >= 5
  /\ tx["from"][1] = "0"
  /\ tx["from"][2] \in {"x", "X"}
  /\ tx["from"][3] \in {"a", "A"}
  /\ tx["from"][4] \in {"b", "B"}
  /\ tx["from"][5] \in {"c", "C"}
Rules(tx) ==
  (IF ValueRule(tx) THEN {"value"} ELSE {}) \cup
  (IF GasRule(tx) THEN {"gas"} ELSE {}) \cup
  (IF PrefixRule(tx) THEN {"from"} ELSE {})
Weighted(tx) ==
  (IF ValueRule(tx) THEN 50 ELSE 0) + (IF GasRule(tx) THEN 30 ELSE 0)
    + (IF PrefixRule(tx) THEN 30 ELSE 0)

\* the consumer has scored the record it holds
Scored == score # NoScore /\ Truthy(tx_json)

\* C7: the score of every consumed transaction is
\* min(0.5*[value > 100] + 0.3*[gas > 50] + 0.3*[lowercased from starts with
\* "0xabc"], 1.0), the comparisons being strict: 1.0 when all three rules
\* hold, 0.0 when none does.
C7_ScoreFormula ==
  Scored =>
    LET tx == json_loads(tx_json)
    IN  /\ score = (IF Weighted(tx) < 100 THEN Weighted(tx) ELSE 100)
        /\ Rules(tx) = {"value", "gas", "from"} => score = 100
        /\ Rules(tx) = {} => score = 0
        /\ (tx["value"] = 100 /\ tx["gas"] = 50 /\ ~PrefixRule(tx)) => score = 0

\* C7 witness: a transaction at both limits with an upper-case prefix was
\* scored 0.3
C7_Witness ==
  /\ Scored
  /\ json_loads(tx_json)["value"] = 100
  /\ json_loads(tx_json)["gas"] = 50
  /\ json_loads(tx_json)["from"] = AddrUpperX
  /\ score = 30

\* the record the listener builds from the details d
RecordOf(d) == tx_data_of(1, d, 1)

\* C8: the score never decreases when the set of satisfied rules grows, and
\* lies in [0, 1]: the score of the consumed transaction is at most the
\* score of every transaction that satisfies at least the same rules, and
\* at least that of every transaction that satisfies at most the same rules.
C8_ScoreMonotonic ==
  Scored =>
    LET tx == json_loads(tx_json)
    IN  /\ score >= 0 /\ score <= 100
        /\ \A d \in ScoreFeed :
             /\ Rules(tx) \subseteq Rules(RecordOf(d))
                  => score <= simple_risk_score(RecordOf(d))
             /\ Rules(RecordOf(d)) \subseteq Rules(tx)
                  => simple_risk_score(RecordOf(d)) <= score

\* C8 witness: a transaction that satisfies the value rule and the prefix
\* rule was scored 0.8, below the cap, with a strict superset available
C8_Witness ==
  /\ Scored
  /\ Rules(json_loads(tx_json)) = {"value", "from"}
  /\ score = 80

IsConsumed(line) == line.msg = "consumed"
HashesOf(texts) == [i \in DOMAIN texts |-> json_loads(texts[i])["hash"]]
LoggedHashes(lines) == [i \in DOMAIN lines |-> lines[i].hash]

\* C9: records leave the queue in the order in which they entered it, and
\* are scored and logged in that order: what was popped is a prefix of what
\* was pushed, and the consume lines name the popped hashes in pop order.
C9_Fifo ==
  /\ Len(popped) <= Len(pushed)
  /\ popped = SubSeq(pushed, 1, Len(popped))
  /\ LET done == LoggedHashes(SelectSeq(log_hist, IsConsumed))
     IN  /\ Len(done) <= Len(popped)
         /\ done = SubSeq(HashesOf(popped), 1, Len(done))

\* C9 witness: the second record was pushed before the first was consumed,
\* and both were popped and consumed
C9_Witness ==
  /\ Len(popped) = 2
  /\ CountOf(log_hist, IsConsumed) = 2
  /\ \E i, j \in DOMAIN log_hist :
       /\ i < j
       /\ log_hist[i] = Enqueued(2)
       /\ IsConsumed(log_hist[j])
       /\ log_hist[j].hash = 1

\* the record {value: 150, gas: 60, from: "0xABC123", hash: "0x1"}
Record0x1 == json_dumps(tx_data_of(1, Details(150, 60, AddrABC123, AddrOther), 1), TxKeys)

\* that record alone went through the pipeline: pushed and logged by the
\* listener, popped and processed by the consumer
Only0x1Consumed ==
  /\ pushed = <<Record0x1>>
  /\ popped = pushed
  /\ ConsumerIdle
  /\ pc_listen \notin {"pushed", "trim"}

Mentions0x1(line) == line.hash = 1
Consumed0x1(line) == line = Consumed(1, 100)

\* C10 (as claimed): after that record alone is pushed and consumed,
\* getAlerts(0.8) returns exactly one alert, of tx_hash "0x1" and score 1.0,
\* and getLogs() returns exactly one line mentioning "0x1".
C10_OneAlertOneLine ==
  [][ (Only0x1Consumed /\ response = NoResponse /\ response' # NoResponse) =>
        /\ (response'.kind = "alerts" /\ response'.threshold = 80) =>
             /\ Len(response'.body) = 1
             /\ response'.body[1].tx_hash = 1
             /\ response'.body[1].risk_score = 100
        /\ response'.kind = "logs" =>
             CountOf(response'.body, Mentions0x1) = 1 ]_vars

\* C10 (amended): ... and getLogs() returns exactly two lines mentioning
\* "0x1": the listener's enqueue line and the consumer's consume line, the
\* latter with score 1.0.
C10_OneAlertTwoLines ==
  [][ (Only0x1Consumed /\ response = NoResponse /\ response' # NoResponse) =>
        /\ (response'.kind = "alerts" /\ response'.threshold = 80) =>
             /\ Len(response'.body) = 1
             /\ response'.body[1].tx_hash = 1
             /\ response'.body[1].risk_score = 100
        /\ response'.kind = "logs" =>
             /\ CountOf(response'.body, Mentions0x1) = 2
             /\ CountOf(response'.body, Consumed0x1) = 1
             /\ Enqueued(1) \in Elements(response'.body) ]_vars

\* C10 witness: getLogs() answered after that record alone was consumed
C10_Witness ==
  /\ Only0x1Consumed
  /\ response.kind = "logs"
  /\ CountOf(response.body, Mentions0x1) = 2
  /\ Len(latest_alerts) = 1
  /\ latest_alerts[1].tx_hash = 1

\* C11: a getAlerts query whose threshold lies outside [0, 1] is rejected:
\* the answer carries no alert list and the step changes neither cache; an
\* answer that carries an alert list has a threshold within [0, 1].
C11_OutOfRangeRejected ==
  [][ (response = NoResponse /\ response' # NoResponse) =>
        /\ (response'.threshold < 0 \/ response'.threshold > 100) =>
             /\ response'.kind = "rejected"
             /\ response'.body = <<>>
             /\ UNCHANGED <<latest_alerts, transaction_logs>>
        /\ response'.kind = "alerts" =>
             response'.threshold >= 0 /\ response'.threshold <= 100 ]_vars

\* C11 witness: threshold 1.1 was rejected while both caches hold entries
C11_Witness ==
  /\ response = Rejected(110)
  /\ latest_alerts # <<>>
  /\ transaction_logs # <<>>

\* a step of the listener: its position or its locals change
ListenerMoves == listenVars' # listenVars
ConsumerMoves == consumeVars' # consumeVars
IsListenerLine(line) == line.msg \in {"listening", "enqueued"}

\* C12 (as stated): no step of the listener changes the alert cache or the
\* log cache.
C12_ListenerLeavesCaches ==
  [][ ListenerMoves => UNCHANGED <<latest_alerts, transaction_logs>> ]_vars

\* C12 (amended): the alert cache changes only in steps of the consumer and
\* never in a step of the listener; a step of the listener changes the log
\* cache only by putting one of its own lines at the front or by dropping
\* the oldest line, and leaves the consumer's locals alone.
C12_OnlyLogCacheShared ==
  [][ /\ latest_alerts' # latest_alerts => ConsumerMoves /\ ~ListenerMoves
      /\ ListenerMoves =>
            /\ ~ConsumerMoves
            /\ \/ transaction_logs' = transaction_logs
               \/ /\ Len(transaction_logs') = Len(transaction_logs) + 1
                  /\ Tail(transaction_logs') = transaction_logs
                  /\ IsListenerLine(transaction_logs'[1])
               \/ transaction_logs' = LogTruncated(transaction_logs) ]_vars

\* C12 witness: the listener has just put its enqueue line at the front of
\* the log cache
C12_Witness ==
  /\ pc_listen = "trim"
  /\ ret_listen = "resolve"
  /\ transaction_logs # <<>>
  /\ transaction_logs[1] = Enqueued(tx_data["hash"])

\* C13: no answer of getAlerts holds more than 10 alerts and no answer of
\* getLogs more than 20 lines, wherever the query falls between the steps
\* of an insertion.
C13_ReadsSynchronized ==
  /\ response.kind = "alerts" => Len(response.body) <= 10
  /\ response.kind = "logs" => Len(response.body) <= 20

\* C14: a failure of the queue store does not end the loop it hits: after a
\* failed lpush the listener goes on, after a failed rpop the consumer goes
\* on to its next pop.
C14_StoreFailureSurvived ==
  [][ /\ (pc_listen = "push_failed" /\ pc_listen' # pc_listen) =>
           pc_listen' # "crashed" /\ running' # "dead"
      /\ (pc_consume = "pop_failed" /\ pc_consume' # pc_consume) =>
           pc_consume' # "crashed" /\ running' # "dead" ]_vars

\* the k newest of the lines logged so far, newest first
MostRecentFirst(hist, k) == [i \in 1..k |-> hist[Len(hist) + 1 - i]]
AtMost(a, b) == IF a <= b THEN a ELSE b

\* C15: getLogs() answers with exactly the min(20, n) newest of the n lines
\* logged so far, newest first.
C15_LogsMostRecent ==
  [][ (response = NoResponse /\ response'.kind = "logs") =>
        response'.body = MostRecentFirst(log_hist, AtMost(LogCap, Len(log_hist))) ]_vars

ConsumedLines == SelectSeq(log_hist, IsConsumed)
AtRetention(line) == line.score >= 30

\* C16: every record the consumer has processed has exactly one consume
\* line, naming its hash and its score, whatever the score; it has an alert
\* exactly if its score is at least 0.3, whatever threshold the queries use;
\* and every alert in the cache has a score of at least 0.3.
C16_LoggedAlwaysRetainedAtThreshold ==
  /\ \A i \in DOMAIN latest_alerts : latest_alerts[i].risk_score >= 30
  /\ ConsumerIdle =>
       /\ Len(ConsumedLines) = Len(popped)
       /\ \A i \in DOMAIN popped :
            /\ ConsumedLines[i].hash = json_loads(popped[i])["hash"]
            /\ ConsumedLines[i].score = simple_risk_score(json_loads(popped[i]))
       /\ Len(alert_hist) = Len(SelectSeq(ConsumedLines, AtRetention))
       /\ \A j \in DOMAIN alert_hist :
            /\ alert_hist[j].tx_hash = SelectSeq(ConsumedLines, AtRetention)[j].hash
            /\ alert_hist[j].risk_score = SelectSeq(ConsumedLines, AtRetention)[j].score

\* C16 witness: a record of score 0.0 and one of score 0.3 were consumed,
\* both are logged, only the second is cached, and a query with threshold
\* 1.0 that returned nothing left it in the cache
C16_Witness ==
  /\ ConsumerIdle
  /\ Len(popped) = 2
  /\ \E i, j \in DOMAIN ConsumedLines :
       ConsumedLines[i].score = 0 /\ ConsumedLines[j].score = 30
  /\ Len(latest_alerts) = 1
  /\ latest_alerts[1].risk_score = 30
  /\ response = AlertsResponse(100, <<>>)

\* a query answered in a step in which neither loop moves
QueryAlone ==
  response = NoResponse /\ response' # NoResponse /\ ~ListenerMoves /\ ~ConsumerMoves

\* C17: a getAlerts or getLogs query changes neither cache nor the queue,
\* and the same query put again right after it, against the state it left,
\* gets the same answer.
C17_QueriesReadOnly ==
  [][ QueryAlone =>
        /\ UNCHANGED <<latest_alerts, transaction_logs, tx_queue>>
        /\ response'.kind = "alerts" =>
             response'.body = filtered(latest_alerts', response'.threshold)
        /\ response'.kind = "logs" => response'.body = transaction_logs'
        /\ response'.kind = "rejected" => response'.body = <<>> ]_vars

\* C17 witness: getLogs() was answered while the caches and the queue hold
\* entries, and they are all still there
C17_Witness ==
  /\ response.kind = "logs"
  /\ response.body = transaction_logs
  /\ Len(transaction_logs) >= 3
  /\ latest_alerts # <<>>
  /\ tx_queue # <<>>

WasPushed(h) == \E i \in DOMAIN pushed : json_loads(pushed[i])["hash"] = h
WasConsumed(h) == \E i \in DOMAIN ConsumedLines : ConsumedLines[i].hash = h

\* C18: with the consumer scheduled fairly and no failure, every record
\* that was pushed is eventually popped, scored and logged; an empty pop
\* only puts the consumer to sleep, and from the sleep it comes back to the
\* next pop.
C18_PushedEventuallyConsumed ==
  /\ \A h \in 1..TxLimit("mixed") : WasPushed(h) ~> WasConsumed(h)
  /\ [][ (pc_consume = "popped" /\ ~Truthy(tx_json) /\ pc_consume' # pc_consume) =>
           pc_consume' = "sleep" /\ running' # "dead" ]_vars
  /\ (pc_consume = "sleep") ~> (pc_consume = "rpop")

\* C18 witness: two records were pushed, both were consumed, and the
\* consumer sleeps after an empty pop
C18_Witness ==
  /\ Len(pushed) = 2
  /\ WasConsumed(1)
  /\ WasConsumed(2)
  /\ tx_queue = <<>>
  /\ pc_consume = "sleep"

Reverse(seq) == [i \in DOMAIN seq |-> seq[Len(seq) + 1 - i]]
NoRepeat(seq) == \A i, j \in DOMAIN seq : seq[i] = seq[j] => i = j
AlertHashes == [i \in DOMAIN alert_hist |-> alert_hist[i].tx_hash]

\* C19: a pop takes the record off the queue, so what was pushed is what
\* was popped followed by what still waits, and no record is popped, logged
\* as consumed or alerted twice; once the pipeline has ended, a record the
\* consumer had popped but not yet processed is never scored, logged or
\* alerted.
C19_AtMostOnce ==
  /\ [](/\ pushed = popped \o Reverse(tx_queue)
        /\ NoRepeat(HashesOf(popped))
        /\ NoRepeat(LoggedHashes(ConsumedLines))
        /\ NoRepeat(AlertHashes))
  /\ [][ running = "dead" =>
           UNCHANGED <<log_hist, alert_hist, latest_alerts, transaction_logs>> ]_vars

\* C19 witness: the pipeline ended while the consumer held a record it had
\* popped and not yet processed; the record is in no log line and not on
\* the queue
C19_Witness ==
  /\ running = "dead"
  /\ pc_consume = "popped"
  /\ Truthy(tx_json)
  /\ ~WasConsumed(json_loads(tx_json)["hash"])
  /\ tx_json \notin Elements(tx_queue)
  /\ tx_json \in Elements(popped)

LoopCrashed == pc_listen = "crashed" \/ pc_consume = "crashed"

\* C20: once an exception has left either loop, neither loop takes another
\* step: the caches, the logs and the locals of both loops stay as they are
\* and a loop's position moves only where the store completes a command
\* that was already sent; getAlerts and getLogs can still be called and
\* answer from the caches as the loops left them.
C20_CrashEndsPipeline ==
  /\ [][ LoopCrashed =>
           /\ UNCHANGED <<latest_alerts, transaction_logs, log_hist, alert_hist,
                          tx_hashes, tx_data, score, ret_listen, ret_consume, emitted>>
           /\ pc_listen' # pc_listen => pc_listen = "lpush"
           /\ pc_consume' # pc_consume => pc_consume = "rpop"
           /\ (response = NoResponse /\ response'.kind = "logs") =>
                response'.body = transaction_logs
           /\ (response = NoResponse /\ response'.kind = "alerts") =>
                response'.body = filtered(latest_alerts, response'.threshold) ]_vars
  /\ []((LoopCrashed /\ response = NoResponse) =>
          ENABLED GetLogs /\ ENABLED GetAlerts(NoThreshold))

\* C20 witness: the consumer has crashed, the listener has not and is not
\* running either, and getLogs() has answered with the lines the loops left
C20_Witness ==
  /\ pc_consume = "crashed"
  /\ pc_listen \notin {"crashed", "start"}
  /\ running = "dead"
  /\ emitted < TxLimit(scenario)
  /\ response.kind = "logs"
  /\ response.body = transaction_logs
  /\ transaction_logs # <<>>

====
